---- MODULE Spec2Model ----
(***************************************************************************)
(* BB84 key distribution simulation (src/bb88.py).                         *)
(*                                                                         *)
(* The model follows run_tests: every trial flips a coin for the           *)
(* eavesdropper, runs one collect_data session and tallies the verdict.    *)
(* A session is the pipeline generate_alice_data, prepare_qubits,          *)
(* [eve_intercepts], bob_measures, reconcile_bases, public discussion.     *)
(*                                                                         *)
(* Positions are numbered 1..num_qubits here (0..num_qubits-1 in Python).  *)
(* A circuit is the sequence of gates appended to a one-qubit circuit that *)
(* starts in |0>; running it follows the state through the gates.          *)
(***************************************************************************)
EXTENDS Integers, Sequences, FiniteSets

\* Transmission length.  The program fixes it to 32 (bb88.py line 7); the
\* model keeps it small.
num_qubits == 2

\* Largest num_tests handed to run_tests.
MaxTests == 2

\* Array length when the classical post-processing is applied to arbitrary
\* bit and basis arrays.
ClassicalLen == 4

VARIABLES
    num_tests,              \* argument of run_tests
    tests_run,              \* iterations of the trial loop started so far
    results,                \* the 2x2 contingency table of run_tests
    eavesdropping_enabled,  \* coin flip of the current trial
    pc,                     \* position in run_tests / collect_data
    alice_bits, alice_bases,
    circuits,               \* the circuits in transit to Bob
    eve_bases,              \* "None" when no eavesdropper
    eve_bits,               \* measured_bit of eve_intercepts, per position
    bob_bases, bob_bits,
    measurements,           \* the simulator runs of the session, in order
    alice_shared_key, bob_shared_key,
    correct_bases, correct_bits, half_correct_bits,
    confirmed_by_alice, outcome,
    eavesdropping_ratio     \* exact fraction [num, den] of the float result

session == <<alice_bits, alice_bases, circuits, eve_bases, eve_bits,
             bob_bases, bob_bits, measurements>>
discussion == <<alice_shared_key, bob_shared_key, correct_bases, correct_bits,
                half_correct_bits, confirmed_by_alice, outcome,
                eavesdropping_ratio>>
harness == <<num_tests, tests_run, results>>
vars == <<harness, eavesdropping_enabled, pc, session, discussion>>

Positions == 1..num_qubits
BitStrings == [Positions -> {0, 1}]
None == "None"

(***************************************************************************)
(* One-qubit circuits                                                      *)
(***************************************************************************)

\* The state of the qubit after one gate.  From |0>, x and h only reach the
\* four BB84 states (up to a global phase): "0", "1", "+", "-".
apply_gate(gate, state) ==
    CASE gate = "x" -> (CASE state = "0" -> "1"
                          [] state = "1" -> "0"
                          [] state = "+" -> "+"
                          [] state = "-" -> "-")
      [] gate = "h" -> (CASE state = "0" -> "+"
                          [] state = "1" -> "-"
                          [] state = "+" -> "0"
                          [] state = "-" -> "1")
      [] gate = "measure" -> state

RECURSIVE run_gates(_, _)
run_gates(qc, state) ==
    IF qc = <<>> THEN state
    ELSE run_gates(Tail(qc), apply_gate(Head(qc), state))

\* The values int(max(counts, key=counts.get)) can take when the circuit is
\* run for the simulator's shots: a basis state gives one count entry, a
\* superposition gives two entries of which either may be the larger.
measured_bit(qc) ==
    LET state == run_gates(qc, "0")
    IN  CASE state = "0" -> {0}
          [] state = "1" -> {1}
          [] OTHER -> {0, 1}

\* Mutation: the basis change is appended before the bit flip.
prepare_qubit_h_first(bit, basis) ==
    (IF basis = 1 THEN <<"h">> ELSE <<>>) \o (IF bit = 1 THEN <<"x">> ELSE <<>>)

\* QuantumCircuit(1, 1) followed by the conditional x and h.
prepare_qubit(bit, basis) ==
    (IF bit = 1 THEN <<"x">> ELSE <<>>) \o (IF basis = 1 THEN <<"h">> ELSE <<>>)

prepare_qubits(bits, bases) ==
    [i \in Positions |-> prepare_qubit(bits[i], bases[i])]

\* Mutation: the basis change is applied for basis 0 instead of basis 1.
measure_in_basis_swapped(qc, basis) ==
    qc \o (IF basis = 0 THEN <<"h">> ELSE <<>>) \o <<"measure">>

\* The basis change and the measurement appended before the simulator runs.
measure_in_basis(qc, basis) ==
    qc \o (IF basis = 1 THEN <<"h">> ELSE <<>>) \o <<"measure">>

(***************************************************************************)
(* Classical post-processing                                               *)
(***************************************************************************)

count(seq, v) == Cardinality({i \in DOMAIN seq : seq[i] = v})

\* alice_bases == bob_bases, element-wise.
check_correct_bases(a_bases, b_bases) ==
    [i \in DOMAIN a_bases |-> a_bases[i] = b_bases[i]]

\* np.where(mask)[0]: the indices of the true entries, ascending.
RECURSIVE where_from(_, _)
where_from(mask, i) ==
    IF i > Len(mask) THEN <<>>
    ELSE (IF mask[i] THEN <<i>> ELSE <<>>) \o where_from(mask, i + 1)

\* Mutation: the indices come out in descending order.
RECURSIVE where_down(_, _)
where_down(mask, i) ==
    IF i < 1 THEN <<>>
    ELSE (IF mask[i] THEN <<i>> ELSE <<>>) \o where_down(mask, i - 1)

np_where_descending(mask) == where_down(mask, Len(mask))

np_where(mask) == where_from(mask, 1)

\* arr[indices] for an index array.
take(arr, indices) == [k \in 1..Len(indices) |-> arr[indices[k]]]

reconcile_bases(a_bases, b_bases, a_bits, b_bits) ==
    LET matching_bases == check_correct_bases(a_bases, b_bases)
        shared_key_indices == np_where(matching_bases)
    IN  [alice_shared_key |-> take(a_bits, shared_key_indices),
         bob_shared_key |-> take(b_bits, shared_key_indices)]

\* Mutation: only the matching positions get a marker.
format_correct_bases_filtered(correct) ==
    [k \in 1..Cardinality({i \in DOMAIN correct : correct[i]}) |-> "K"]

format_correct_bases(correct) ==
    [i \in DOMAIN correct |-> IF correct[i] THEN "K" ELSE " "]

create_correct_bits(b_bits, correct) ==
    [i \in DOMAIN correct |-> IF correct[i] THEN b_bits[i] ELSE -1]

valid_indices(c_bits) == {i \in DOMAIN c_bits : c_bits[i] # -1}

\* Mutation: replace=True, an index can be drawn more than once.
np_random_choice_replace(a, size) ==
    {sel \in SUBSET a : Cardinality(sel) <= size /\ (size > 0 => sel # {})}

\* The sets of indices np.random.choice(a, size, replace=False) can return.
np_random_choice(a, size) == {sel \in SUBSET a : Cardinality(sel) = size}

\* Mutation: the half is rounded up.
sample_size_ceil(valid) == (Cardinality(valid) + 1) \div 2

\* Mutation: the halving is missing, every valid index is selected.
sample_size_all(valid) == Cardinality(valid)

sample_size(valid) == Cardinality(valid) \div 2

store_selected(c_bits, selected_indices) ==
    [i \in DOMAIN c_bits |-> IF i \in selected_indices THEN c_bits[i] ELSE -1]

\* Every value randomly_store_half(correct_bits) can return.
randomly_store_half(c_bits) ==
    LET valid == valid_indices(c_bits)
    IN  {store_selected(c_bits, sel) : sel \in np_random_choice(valid, sample_size(valid))}

\* Mutation: the sentinel test is dropped, an undisclosed entry counts as 'F'.
confirm_by_alice_no_sentinel(a_bits, half) ==
    [i \in DOMAIN half |-> IF half[i] = a_bits[i] THEN "T" ELSE "F"]

confirm_by_alice(a_bits, half) ==
    [i \in DOMAIN half |->
        IF half[i] = a_bits[i] THEN "T" ELSE IF half[i] # -1 THEN "F" ELSE " "]

\* Mutation: the disclosed bits are kept in the outcome.
create_outcome_keep_disclosed(c_bits, half) ==
    [i \in DOMAIN c_bits |-> c_bits[i]]

create_outcome(c_bits, half) ==
    [i \in DOMAIN c_bits |-> IF half[i] = -1 THEN c_bits[i] ELSE -1]

\* Mutation: the count is multiplied by num_qubits instead of divided by it.
calculate_eavesdropping_ratio_times(confirmed) ==
    [num |-> count(confirmed, "F") * num_qubits * 100, den |-> 1]

\* Mutation: the count is divided by the number of disclosed positions.
calculate_eavesdropping_ratio_disclosed(confirmed) ==
    [num |-> count(confirmed, "F") * 100,
     den |-> count(confirmed, "F") + count(confirmed, "T")]

\* (total_intercepted / num_qubits) * 100, kept as the exact fraction num/den.
calculate_eavesdropping_ratio(confirmed) ==
    [num |-> count(confirmed, "F") * 100, den |-> num_qubits]

\* data['eavesdropping_ratio'] > 0
eavesdropping_detected(ratio) == ratio.num > 0

(***************************************************************************)
(* run_tests and collect_data                                              *)
(***************************************************************************)

NumTestsInputs == -1..MaxTests

NoData == <<>>

Cells == {"detected", "non-detected"}
Rows == {"Eavesdropping True", "Eavesdropping False"}

Init ==
    /\ num_tests \in NumTestsInputs
    /\ tests_run = 0
    /\ results = [r \in Rows |-> [c \in Cells |-> 0]]
    /\ eavesdropping_enabled = FALSE
    /\ pc = "loop"
    /\ alice_bits = NoData /\ alice_bases = NoData
    /\ circuits = NoData
    /\ eve_bases = None /\ eve_bits = NoData
    /\ bob_bases = NoData /\ bob_bits = NoData
    /\ measurements = <<>>
    /\ alice_shared_key = NoData /\ bob_shared_key = NoData
    /\ correct_bases = NoData /\ correct_bits = NoData
    /\ half_correct_bits = NoData
    /\ confirmed_by_alice = NoData /\ outcome = NoData
    /\ eavesdropping_ratio = None

\* for _ in range(num_tests): flip the coin and enter collect_data with a
\* fresh data record.
StartTrial ==
    /\ pc = "loop"
    /\ tests_run < num_tests
    /\ tests_run' = tests_run + 1
    /\ eavesdropping_enabled' \in BOOLEAN
    /\ pc' = "generate"
    /\ alice_bits' = NoData /\ alice_bases' = NoData
    /\ circuits' = NoData
    /\ eve_bases' = None /\ eve_bits' = NoData
    /\ bob_bases' = NoData /\ bob_bits' = NoData
    /\ measurements' = <<>>
    /\ alice_shared_key' = NoData /\ bob_shared_key' = NoData
    /\ correct_bases' = NoData /\ correct_bits' = NoData
    /\ half_correct_bits' = NoData
    /\ confirmed_by_alice' = NoData /\ outcome' = NoData
    /\ eavesdropping_ratio' = None
    /\ UNCHANGED <<num_tests, results>>

\* range(num_tests) is exhausted: the table is printed.
FinishTests ==
    /\ pc = "loop"
    /\ tests_run >= num_tests
    /\ pc' = "done"
    /\ UNCHANGED <<harness, eavesdropping_enabled, session, discussion>>

\* Mutation: every circuit is run a second time (a retry).
simulator_runs_twice(party, qcs) ==
    [k \in 1..(2 * Len(qcs)) |-> <<party, (k + 1) \div 2>>]

\* One simulator.run per circuit of the list, in list order, by the party
\* whose loop it is.
simulator_runs(party, qcs) == [i \in DOMAIN qcs |-> <<party, i>>]

GenerateAliceData ==
    /\ pc = "generate"
    /\ alice_bits' \in BitStrings
    /\ alice_bases' \in BitStrings
    /\ pc' = "prepare"
    /\ UNCHANGED <<harness, eavesdropping_enabled, circuits, eve_bases, eve_bits,
                   bob_bases, bob_bits, measurements, discussion>>

PrepareQubits ==
    /\ pc = "prepare"
    /\ circuits' = prepare_qubits(alice_bits, alice_bases)
    /\ pc' = IF eavesdropping_enabled THEN "eve" ELSE "bob"
    /\ UNCHANGED <<harness, eavesdropping_enabled, alice_bits, alice_bases,
                   eve_bases, eve_bits, bob_bases, bob_bits, measurements,
                   discussion>>

\* Mutation: Eve measures, but collect_data keeps sending Alice's circuits.
EveIntercepts_keeps_original ==
    /\ pc = "eve"
    /\ \E bases \in BitStrings, bits \in BitStrings :
        /\ \A i \in Positions :
              bits[i] \in measured_bit(measure_in_basis(circuits[i], bases[i]))
        /\ eve_bases' = bases
        /\ eve_bits' = bits
    /\ measurements' = measurements \o simulator_runs("eve", circuits)
    /\ pc' = "bob"
    /\ UNCHANGED <<harness, eavesdropping_enabled, alice_bits, alice_bases,
                   circuits, bob_bases, bob_bits, discussion>>

\* Eve measures a copy of every circuit in her own basis and forwards a
\* circuit she prepares from her result.
EveIntercepts ==
    /\ pc = "eve"
    /\ \E bases \in BitStrings, bits \in BitStrings :
        /\ \A i \in Positions :
              bits[i] \in measured_bit(measure_in_basis(circuits[i], bases[i]))
        /\ eve_bases' = bases
        /\ eve_bits' = bits
        /\ circuits' = [i \in Positions |-> prepare_qubit(bits[i], bases[i])]
    /\ measurements' = measurements \o simulator_runs("eve", circuits)
    /\ pc' = "bob"
    /\ UNCHANGED <<harness, eavesdropping_enabled, alice_bits, alice_bases,
                   bob_bases, bob_bits, discussion>>

\* Bob appends his basis change and the measurement to the circuits in
\* transit and keeps the measured bit.
BobMeasures ==
    /\ pc = "bob"
    /\ \E bases \in BitStrings, bits \in BitStrings :
        /\ \A i \in Positions :
              bits[i] \in measured_bit(measure_in_basis(circuits[i], bases[i]))
        /\ bob_bases' = bases
        /\ bob_bits' = bits
        /\ circuits' = [i \in Positions |-> measure_in_basis(circuits[i], bases[i])]
    /\ measurements' = measurements \o simulator_runs("bob", circuits)
    /\ pc' = "reconcile"
    /\ UNCHANGED <<harness, eavesdropping_enabled, alice_bits, alice_bases,
                   eve_bases, eve_bits, discussion>>

ReconcileBases ==
    /\ pc = "reconcile"
    /\ LET keys == reconcile_bases(alice_bases, bob_bases, alice_bits, bob_bits)
       IN  /\ alice_shared_key' = keys.alice_shared_key
           /\ bob_shared_key' = keys.bob_shared_key
    /\ pc' = "discuss"
    /\ UNCHANGED <<harness, eavesdropping_enabled, session, correct_bases,
                   correct_bits, half_correct_bits, confirmed_by_alice, outcome,
                   eavesdropping_ratio>>

\* Step 4 of collect_data, up to the return of the data record.
PublicDiscussion ==
    /\ pc = "discuss"
    /\ LET correct == check_correct_bases(alice_bases, bob_bases)
           c_bits == create_correct_bits(bob_bits, correct)
       IN  /\ correct_bases' = format_correct_bases(correct)
           /\ correct_bits' = c_bits
           /\ half_correct_bits' \in randomly_store_half(c_bits)
    /\ confirmed_by_alice' = confirm_by_alice(alice_bits, half_correct_bits')
    /\ outcome' = create_outcome(correct_bits', half_correct_bits')
    /\ eavesdropping_ratio' = calculate_eavesdropping_ratio(confirmed_by_alice')
    /\ pc' = "tally"
    /\ UNCHANGED <<harness, eavesdropping_enabled, session, alice_shared_key,
                   bob_shared_key>>

\* The cell of the contingency table a trial adds to.
tally_cell(enabled, detected) ==
    <<IF enabled THEN "Eavesdropping True" ELSE "Eavesdropping False",
      IF detected THEN "detected" ELSE "non-detected">>

Tally ==
    /\ pc = "tally"
    /\ LET cell == tally_cell(eavesdropping_enabled,
                              eavesdropping_detected(eavesdropping_ratio))
       IN  results' = [results EXCEPT ![cell[1]][cell[2]] = @ + 1]
    /\ pc' = "loop"
    /\ UNCHANGED <<num_tests, tests_run, eavesdropping_enabled, session, discussion>>

Next ==
    \/ StartTrial
    \/ FinishTests
    \/ GenerateAliceData
    \/ PrepareQubits
    \/ EveIntercepts
    \/ BobMeasures
    \/ ReconcileBases
    \/ PublicDiscussion
    \/ Tally

Spec == Init /\ [][Next]_vars

(***************************************************************************)
(* The classical post-processing on its own: reconcile_bases and the       *)
(* public discussion applied to every choice of Alice's bits and bases and *)
(* of Bob's bases and bits (with an eavesdropper every such choice can     *)
(* come out of the quantum transmission).                                  *)
(***************************************************************************)

ClassicalArrays == [1..ClassicalLen -> {0, 1}]

ClassicalInit ==
    /\ num_tests = 1
    /\ tests_run = 1
    /\ results = [r \in Rows |-> [c \in Cells |-> 0]]
    /\ eavesdropping_enabled = TRUE
    /\ pc = "reconcile"
    /\ alice_bits \in ClassicalArrays /\ alice_bases \in ClassicalArrays
    /\ circuits = NoData
    /\ eve_bases = None /\ eve_bits = NoData
    /\ bob_bases \in ClassicalArrays /\ bob_bits \in ClassicalArrays
    /\ measurements = <<>>
    /\ alice_shared_key = NoData /\ bob_shared_key = NoData
    /\ correct_bases = NoData /\ correct_bits = NoData
    /\ half_correct_bits = NoData
    /\ confirmed_by_alice = NoData /\ outcome = NoData
    /\ eavesdropping_ratio = None

ClassicalNext ==
    \/ ReconcileBases
    \/ PublicDiscussion

SpecClassical == ClassicalInit /\ [][ClassicalNext]_vars

(***************************************************************************)
(* Properties                                                              *)
(***************************************************************************)

\* reconcile_bases has returned for the current session.
KeysReturned ==
    \/ pc \in {"discuss", "tally"}
    \/ pc \in {"loop", "done"} /\ tests_run > 0

\* collect_data has returned the data record of the current session.
DataReturned ==
    \/ pc = "tally"
    \/ pc \in {"loop", "done"} /\ tests_run > 0

\* Bob has measured every circuit of the current session.
BobMeasured == pc = "reconcile" \/ KeysReturned

\* Eve has measured every circuit of the current session.
EveMeasured == eavesdropping_enabled /\ (pc = "bob" \/ BobMeasured)

MatchingPositions == {i \in DOMAIN alice_bases : alice_bases[i] = bob_bases[i]}
DisclosedPositions == {i \in DOMAIN half_correct_bits : half_correct_bits[i] # -1}
OutcomePositions == {i \in DOMAIN outcome : outcome[i] # -1}

\* The k-th smallest element of a set of positions.
kth_smallest(S, k) == CHOOSE i \in S : Cardinality({j \in S : j < i}) = k - 1

\* C1: in a session without eavesdropper the two sifted keys have the same
\* length and agree at every sifted index.
C1_SiftedKeysAgree ==
    (KeysReturned /\ ~eavesdropping_enabled) =>
        /\ Len(alice_shared_key) = Len(bob_shared_key)
        /\ \A k \in 1..Len(alice_shared_key) : alice_shared_key[k] = bob_shared_key[k]

C1_Witness ==
    /\ KeysReturned /\ ~eavesdropping_enabled
    /\ Len(alice_shared_key) >= 1
    /\ \E k \in 1..Len(alice_shared_key) : alice_shared_key[k] = 1
    /\ \E i \in Positions : alice_bases[i] = 1 /\ bob_bases[i] = 1

\* C2: without eavesdropper the eavesdropping ratio of a session is 0, and
\* the cell 'Eavesdropping False / detected' of run_tests never leaves 0.
C2_NoFalsePositive ==
    /\ (DataReturned /\ ~eavesdropping_enabled) => eavesdropping_ratio.num = 0
    /\ results["Eavesdropping False"]["detected"] = 0

C2_Witness ==
    /\ pc = "done"
    /\ results["Eavesdropping False"]["non-detected"] = MaxTests
    /\ ~eavesdropping_enabled
    /\ \E i \in Positions : confirmed_by_alice[i] = "T"

\* C3: the eavesdropping ratio of every returned session lies in 0..100.
C3_RatioBounds ==
    DataReturned =>
        /\ eavesdropping_ratio.den > 0
        /\ 0 <= eavesdropping_ratio.num
        /\ eavesdropping_ratio.num <= 100 * eavesdropping_ratio.den

C3_Witness ==
    /\ DataReturned /\ eavesdropping_enabled
    /\ eavesdropping_ratio.num > 0

\* C4: a qubit prepared as (b, s) and measured in basis s gives b: for every
\* b and s, for Eve measuring Alice's qubit, and for Bob measuring the qubit
\* in transit (Eve's when she intercepts, Alice's otherwise).
C4_MatchingBasisDeterministic ==
    /\ pc = "prepare" =>
          \A b \in {0, 1}, s \in {0, 1} :
              measured_bit(measure_in_basis(prepare_qubit(b, s), s)) = {b}
    /\ EveMeasured =>
          \A i \in Positions :
              eve_bases[i] = alice_bases[i] => eve_bits[i] = alice_bits[i]
    /\ BobMeasured =>
          \A i \in Positions :
              IF eavesdropping_enabled
              THEN bob_bases[i] = eve_bases[i] => bob_bits[i] = eve_bits[i]
              ELSE bob_bases[i] = alice_bases[i] => bob_bits[i] = alice_bits[i]

C4_Witness ==
    /\ BobMeasured /\ eavesdropping_enabled
    /\ \E i \in Positions :
          /\ alice_bases[i] = 1 /\ alice_bits[i] = 1
          /\ eve_bases[i] = 1 /\ eve_bits[i] = 1
          /\ bob_bases[i] = 1 /\ bob_bits[i] = 1

\* C6: the sifted keys hold exactly the matching-basis positions in
\* ascending order: both have as many elements as there are matching
\* positions, and their k-th element is Alice's, respectively Bob's, bit at
\* the k-th smallest matching position.
C6_SiftingKeepsMatching ==
    KeysReturned =>
        LET m == Cardinality(MatchingPositions)
        IN  /\ Len(alice_shared_key) = m
            /\ Len(bob_shared_key) = m
            /\ \A k \in 1..m :
                  LET i == kth_smallest(MatchingPositions, k)
                  IN  /\ alice_shared_key[k] = alice_bits[i]
                      /\ bob_shared_key[k] = bob_bits[i]

\* The scenario aliceBits=[1,0,1,1], aliceBases=[0,1,0,1], bobBases=[0,1,1,1].
C6_Witness ==
    /\ KeysReturned
    /\ alice_bits = <<1, 0, 1, 1>> /\ alice_bases = <<0, 1, 0, 1>>
    /\ bob_bases = <<0, 1, 1, 1>> /\ bob_bits = <<1, 0, 0, 1>>
    /\ MatchingPositions = {1, 2, 4}
    /\ alice_shared_key = <<1, 0, 1>>
    /\ bob_shared_key = <<1, 0, 1>>

\* C7: the positions with a bit in outcome and the positions with a bit in
\* half_correct_bits are disjoint, and together they are the positions where
\* Alice's and Bob's bases match.
C7_ResidualExclusivity ==
    DataReturned =>
        /\ OutcomePositions \cap DisclosedPositions = {}
        /\ OutcomePositions \cup DisclosedPositions = MatchingPositions

C7_Witness ==
    /\ DataReturned
    /\ Cardinality(DisclosedPositions) >= 1
    /\ Cardinality(OutcomePositions) >= 2
    /\ MatchingPositions # DOMAIN alice_bases

\* C8: with m matching-basis positions (the entries of correct_bits other
\* than -1), exactly m \div 2 distinct positions are disclosed, each of them
\* a matching-basis position holding Bob's bit; every other entry of
\* half_correct_bits is -1.
C8_HalfSample ==
    DataReturned =>
        LET m == Cardinality(MatchingPositions)
        IN  /\ {i \in DOMAIN correct_bits : correct_bits[i] # -1} = MatchingPositions
            /\ DOMAIN half_correct_bits = DOMAIN correct_bits
            /\ Cardinality(DisclosedPositions) = m \div 2
            /\ DisclosedPositions \subseteq MatchingPositions
            /\ \A i \in DOMAIN half_correct_bits :
                  half_correct_bits[i] \in {-1, bob_bits[i]}

C8_Witness ==
    /\ DataReturned
    /\ Cardinality(MatchingPositions) = 3
    /\ Cardinality(DisclosedPositions) = 1
    /\ \E i \in DisclosedPositions : half_correct_bits[i] = 1

\* C9: the eavesdropping ratio is the number of 'F' verdicts divided by
\* num_qubits, times 100.
C9_RatioDenominator ==
    DataReturned =>
        /\ eavesdropping_ratio.den > 0
        /\ eavesdropping_ratio.num * num_qubits =
              count(confirmed_by_alice, "F") * 100 * eavesdropping_ratio.den

C9_Witness ==
    /\ DataReturned
    /\ count(confirmed_by_alice, "F") = 1
    /\ Cardinality(DisclosedPositions) = 1
    /\ Cardinality(DisclosedPositions) # num_qubits

\* C10: run_tests called with a non-positive num_tests is rejected with
\* InvalidConfiguration: it never gets past its entry in any other way.
C10_NonPositiveRejected ==
    (num_tests <= 0 /\ pc # "loop") => pc = "InvalidConfiguration"

\* C11: with fewer than 2 matching-basis positions the sampling of the
\* check half ends in SamplingError: no session returns a data record in
\* that case, nor one with an empty check set.
C11_SamplingErrorDefined ==
    DataReturned =>
        /\ Cardinality(MatchingPositions) >= 2
        /\ DisclosedPositions # {}

\* The four cells of the contingency table, summed.
cells_sum ==
    results["Eavesdropping True"]["detected"]
    + results["Eavesdropping True"]["non-detected"]
    + results["Eavesdropping False"]["detected"]
    + results["Eavesdropping False"]["non-detected"]

\* The trials of run_tests that have been tallied.
completed_trials == IF pc \in {"loop", "done"} THEN tests_run ELSE tests_run - 1

\* C12: after k completed trials the four cells sum to k, and run_tests ends
\* after exactly num_tests trials with the cells summing to num_tests.
C12_TrialsTallied ==
    /\ cells_sum = completed_trials
    /\ pc = "done" => (tests_run = num_tests /\ cells_sum = num_tests)

\* C12, for the calls with num_tests >= 0 only (a negative num_tests runs
\* no trial and ends with all cells 0).
C12_TrialsTalliedNonNegative ==
    /\ cells_sum = completed_trials
    /\ (pc = "done" /\ num_tests >= 0) =>
          (tests_run = num_tests /\ cells_sum = num_tests)

\* C13: every per-position array of a returned data record has length
\* num_qubits, and entry i of each derived array is the one computed from
\* entry i of Alice's and Bob's arrays.
C13_ArraysAligned ==
    DataReturned =>
        /\ DOMAIN alice_bits = Positions /\ DOMAIN alice_bases = Positions
        /\ DOMAIN bob_bases = Positions /\ DOMAIN bob_bits = Positions
        /\ DOMAIN correct_bases = Positions /\ DOMAIN correct_bits = Positions
        /\ DOMAIN half_correct_bits = Positions
        /\ DOMAIN confirmed_by_alice = Positions /\ DOMAIN outcome = Positions
        /\ IF eavesdropping_enabled THEN DOMAIN eve_bases = Positions
                                    ELSE eve_bases = None
        /\ \A i \in Positions :
              /\ correct_bases[i] = "K" <=> alice_bases[i] = bob_bases[i]
              /\ correct_bits[i] \in {-1, bob_bits[i]}
              /\ correct_bits[i] # -1 <=> alice_bases[i] = bob_bases[i]
              /\ half_correct_bits[i] \in {-1, correct_bits[i]}
              /\ outcome[i] \in {-1, correct_bits[i]}
              /\ confirmed_by_alice[i] = " " <=> half_correct_bits[i] = -1

C13_Witness ==
    /\ DataReturned /\ eavesdropping_enabled
    /\ DOMAIN eve_bases = Positions
    /\ \E i \in Positions : confirmed_by_alice[i] = " " /\ outcome[i] # -1
    /\ \E i \in Positions : confirmed_by_alice[i] # " "

\* C14: with an eavesdropper the circuit Bob measures at every position is
\* the one Eve prepared from her measured bit and her basis, so where Bob's
\* basis equals Eve's his bit equals Eve's measured bit.
C14_InterceptResend ==
    /\ (pc = "bob" /\ eavesdropping_enabled) =>
          \A i \in Positions :
              circuits[i] = prepare_qubit(eve_bits[i], eve_bases[i])
    /\ (BobMeasured /\ eavesdropping_enabled) =>
          \A i \in Positions :
              /\ circuits[i] = measure_in_basis(
                                  prepare_qubit(eve_bits[i], eve_bases[i]), bob_bases[i])
              /\ bob_bases[i] = eve_bases[i] => bob_bits[i] = eve_bits[i]

C14_Witness ==
    /\ BobMeasured /\ eavesdropping_enabled
    /\ \E i \in Positions :
          /\ bob_bases[i] = eve_bases[i] /\ eve_bases[i] # alice_bases[i]
          /\ bob_bits[i] = eve_bits[i] /\ eve_bits[i] # alice_bits[i]

\* The positions of the disturbance scenario: Alice's basis 0, Eve's basis
\* 1, Bob's basis 0.
ScenarioPositions ==
    {i \in Positions : alice_bases[i] = 0 /\ eve_bases[i] = 1 /\ bob_bases[i] = 0}

\* C15 as stated: at a scenario position where Eve's bit differs from
\* Alice's, Bob's bit is Eve's bit and the verdict is 'F' when the position
\* is disclosed.
C15_BobGetsEvesBit ==
    (DataReturned /\ eavesdropping_enabled) =>
        \A i \in ScenarioPositions :
            eve_bits[i] # alice_bits[i] =>
                /\ bob_bits[i] = eve_bits[i]
                /\ i \in DisclosedPositions => confirmed_by_alice[i] = "F"

\* C15 as amended: at a scenario position Bob measures Eve's basis-1 qubit
\* in basis 0, so both bits are possible outcomes whatever Eve's bit is, and
\* a disclosed scenario position gets 'F' exactly when Bob's bit differs
\* from Alice's.
C15_BobGetsEitherBit ==
    /\ (pc = "bob" /\ eavesdropping_enabled) =>
          \A i \in Positions :
              (alice_bases[i] = 0 /\ eve_bases[i] = 1) =>
                  measured_bit(measure_in_basis(circuits[i], 0)) = {0, 1}
    /\ (DataReturned /\ eavesdropping_enabled) =>
          \A i \in ScenarioPositions \cap DisclosedPositions :
              confirmed_by_alice[i] = "F" <=> bob_bits[i] # alice_bits[i]

\* Eve's bit is wrong, yet Bob gets Alice's bit and the disclosed position
\* is confirmed.
C15_Witness ==
    /\ DataReturned /\ eavesdropping_enabled
    /\ \E i \in ScenarioPositions \cap DisclosedPositions :
          /\ eve_bits[i] # alice_bits[i]
          /\ bob_bits[i] = alice_bits[i]
          /\ confirmed_by_alice[i] = "T"

\* C16: the verdict at position i is 'T' exactly when i is disclosed with
\* Alice's bit, 'F' exactly when i is disclosed with the other bit, blank
\* exactly when i is not disclosed; the ratio counts disclosed mismatches only.
C16_ThreeWayVerdict ==
    DataReturned =>
        /\ \A i \in DOMAIN confirmed_by_alice :
              /\ confirmed_by_alice[i] = "T" <=>
                    (i \in DisclosedPositions /\ half_correct_bits[i] = alice_bits[i])
              /\ confirmed_by_alice[i] = "F" <=>
                    (i \in DisclosedPositions /\ half_correct_bits[i] # alice_bits[i])
              /\ confirmed_by_alice[i] = " " <=> i \notin DisclosedPositions
        /\ eavesdropping_ratio.num =
              100 * Cardinality({i \in DisclosedPositions :
                                     half_correct_bits[i] # alice_bits[i]})

C16_Witness ==
    /\ DataReturned
    /\ \E i, j, k \in DOMAIN confirmed_by_alice :
          /\ confirmed_by_alice[i] = "T"
          /\ confirmed_by_alice[j] = "F"
          /\ confirmed_by_alice[k] = " " /\ alice_bases[k] = bob_bases[k]

\* C17: in a session Bob runs exactly one measurement per position, Eve
\* runs exactly one per position when she is enabled (none otherwise) and
\* all of hers before any of Bob's: the log of simulator runs is Eve's
\* positions in order (once she has measured) followed by Bob's (once he
\* has).  The circuits handed to Bob are unmeasured, and each circuit Bob
\* measured holds one measurement, as its last gate.
C17_MeasuredOnce ==
    LET eve_runs == IF EveMeasured THEN num_qubits ELSE 0
        bob_runs == IF BobMeasured THEN num_qubits ELSE 0
    IN  /\ Len(measurements) = eve_runs + bob_runs
        /\ \A k \in DOMAIN measurements :
              measurements[k] = IF k <= eve_runs THEN <<"eve", k>>
                                                 ELSE <<"bob", k - eve_runs>>
        /\ pc = "bob" =>
              \A i \in Positions : \A k \in DOMAIN circuits[i] :
                  circuits[i][k] # "measure"
        /\ BobMeasured =>
              \A i \in Positions : \A k \in DOMAIN circuits[i] :
                  circuits[i][k] = "measure" <=> k = Len(circuits[i])

C17_Witness ==
    /\ DataReturned /\ eavesdropping_enabled
    /\ Len(measurements) = 2 * num_qubits
    /\ measurements[1] = <<"eve", 1>>
    /\ measurements[Len(measurements)] = <<"bob", num_qubits>>

\* C18: at most num_qubits \div 2 positions are disclosed, so at most that
\* many verdicts are 'F' and the eavesdropping ratio is at most 50.
C18_RatioAtMostHalf ==
    DataReturned =>
        /\ Cardinality(DisclosedPositions) <= Cardinality(MatchingPositions) \div 2
        /\ count(confirmed_by_alice, "F") <= num_qubits \div 2
        /\ eavesdropping_ratio.num <= 50 * eavesdropping_ratio.den

C18_Witness ==
    /\ DataReturned /\ eavesdropping_enabled
    /\ count(confirmed_by_alice, "F") = num_qubits \div 2
    /\ eavesdropping_ratio.num = 50 * eavesdropping_ratio.den

\* The positions where Eve, Alice and Bob all used the same basis.
AgreedPositions ==
    {i \in Positions : eve_bases[i] = alice_bases[i] /\ alice_bases[i] = bob_bases[i]}

\* C19: with an eavesdropper, where Eve's, Alice's and Bob's bases are equal
\* Bob's bit is Alice's bit and the verdict is never 'F'; a session whose
\* disclosed positions all have Eve's basis equal to Alice's has ratio 0.
C19_UndetectedEve ==
    /\ (BobMeasured /\ eavesdropping_enabled) =>
          \A i \in AgreedPositions : bob_bits[i] = alice_bits[i]
    /\ (DataReturned /\ eavesdropping_enabled) =>
          /\ \A i \in AgreedPositions : confirmed_by_alice[i] # "F"
          /\ (\A i \in DisclosedPositions : eve_bases[i] = alice_bases[i]) =>
                eavesdropping_ratio.num = 0

C19_Witness ==
    /\ DataReturned /\ eavesdropping_enabled
    /\ DisclosedPositions # {}
    /\ \A i \in DisclosedPositions :
          eve_bases[i] = alice_bases[i] /\ confirmed_by_alice[i] = "T"
    /\ \E i \in Positions : eve_bases[i] # alice_bases[i]
    /\ eavesdropping_ratio.num = 0

====
